---- MODULE Spec2Model ----
(***************************************************************************)
(* Model of the iota-identity-examples dashboard (src/src/main.rs,         *)
(* src/src/did.rs, src/src/issue.rs): the one-shot identity / credential   *)
(* setup of main, the producer thread that multiplexes key input and a     *)
(* 200 ms tick into an mpsc channel, and the render loop that draws,       *)
(* receives and dispatches.                                                *)
(***************************************************************************)
EXTENDS Integers, Sequences, FiniteSets, TLC

VARIABLES
    mainPc,            \* position of main (async fn main)
    failed,            \* the step whose failure was raised, or None
    issuer,            \* snapshot: the issuer identity created by the account
    did,               \* did: &IotaDID of the issuer identity
    resolved,          \* resolved: IotaDocument
    did_id,            \* did_id: &str
    subject_doc,       \* subject_doc: IotaDocument returned by did::create_did
    didStep,           \* locals of did::create_did (keypair, document, receipt)
    credential,        \* credential: Credential
    credCount,         \* number of Credential values built so far
    vc,                \* vc: &str
    stdout,            \* what main printed (the two QR images among it)
    rawMode,           \* terminal raw mode (enable_raw_mode / disable_raw_mode)
    rawEver,           \* raw mode has been enabled at some point
    cursorShown,       \* terminal.show_cursor() has been performed
    active_menu_item,  \* active_menu_item: MenuItem
    frame,             \* the last frame drawn by terminal.draw
    draws,             \* number of completed terminal.draw calls
    consumed,          \* events returned by rx.recv(), in order
    trace,             \* menu state after each consumed event
    prodPc,            \* position of the producer thread
    now,               \* Instant::now(), in ms since the start
    last_tick,         \* last_tick: Instant
    chan,              \* the mpsc channel's queue
    emitted            \* events sent by tx.send, in order

vars == <<mainPc, failed, issuer, did, resolved, did_id, subject_doc, didStep,
          credential, credCount, vc, stdout, rawMode, rawEver, cursorShown,
          active_menu_item, frame, draws, consumed, trace,
          prodPc, now, last_tick, chan, emitted>>

setupVars == <<issuer, did, resolved, did_id, subject_doc, didStep,
               credential, credCount, vc, stdout>>
termVars == <<rawMode, rawEver, cursorShown>>
loopVars == <<active_menu_item, frame, draws, consumed, trace>>
prodVars == <<prodPc, now, last_tick, chan, emitted>>

----------------------------------------------------------------------------
(* Bounds of the model *)

\* total number of events the producer sends
MaxEvents == 4
\* granularity of the clock: key arrivals and work take multiples of it (ms)
Quantum == 100
\* the clock stops advancing here (ms)
MaxTime == 300

(* Program constants *)

\* let tick_rate = Duration::from_millis(200);
tick_rate == 200

None == "none"

\* a text: a sequence of tokens (string slices); the empty text
Text(s) == <<s>>
NoText == <<>>

\* a document or identity that does not exist yet
NoDoc == [id |-> None]

\* the identifiers a freshly generated identity can get
DIDs == {"did:iota:A", "did:iota:B"}

\* KeyCode::Char(c) for the four bound keys and one unbound key
Keys == {"q", "h", "i", "v", "x"}

\* enum Event<I> { Input(I), Tick }
Input(k) == <<"Input", k>>
Tick == <<"Tick">>

\* crossterm's Event: Key(key) or something else (Resize, Mouse)
TermEvents == {<<"Key", k>> : k \in Keys} \cup {<<"Resize">>}

\* enum MenuItem { Home, Issue, Verify }
MenuItem == {"Home", "Issue", "Verify"}

\* the index mapping with the indices of Issue and Verify exchanged
MenuIndex_Swapped(input) ==
    CASE input = "Home" -> 0
      [] input = "Issue" -> 2
      [] input = "Verify" -> 1

\* impl From<MenuItem> for usize
MenuIndex(input) ==
    CASE input = "Home" -> 0
      [] input = "Issue" -> 1
      [] input = "Verify" -> 2

\* let menu_titles = vec!["Home", "Issue", "Verify"];  (0-based index i is [i+1])
menu_titles == <<"Home", "Issue", "Verify">>


----------------------------------------------------------------------------
(* Pure functions *)

\* credential.to_string(): the JSON text of the credential, field by field;
\* a credential without a proof serializes without a "proof" member
CredentialToString(c) ==
    <<"id", c.id, "issuer", c.issuer, "type", c.type,
      "credentialSubject", c.subject.id, c.subject.name, c.subject.GPA>>
    \o (IF c.proof = None THEN <<>> ELSE <<"proof", c.proof>>)

\* println!("{}", text)
Line(text) == [kind |-> "line", text |-> text]

\* QrCode::new(text).render::<unicode::Dense1x2>() .. build(), printed
QrImage(text) == [kind |-> "qr", text |-> text]

\* the IotaDocument of did::create_did before it exists
NoSubjectDoc == [id |-> None, signed |-> FALSE, message_id |-> <<>>]

\* the Credential that has not been built yet
NoCredential ==
    [id |-> None, issuer |-> None, type |-> None,
     subject |-> [id |-> None, name |-> None, GPA |-> None], proof |-> None]

\* nothing drawn yet
NoFrame ==
    [titles |-> <<>>, selected |-> -1,
     panel |-> [title |-> None, lines |-> <<>>], footer |-> None]

\* issue_degree with the issuer and the subject document taken for each other
issue_degree_Swapped(iss, subject) ==
    [id      |-> "https://example.edu/credentials/3732",
     issuer  |-> subject.id,
     type    |-> "UniversityDegreeCredential",
     subject |-> [id |-> iss.id, name |-> "Alice", GPA |-> "4.0"],
     proof   |-> None]

\* issue::issue_degree(issuer, subject)
issue_degree(iss, subject) ==
    [id      |-> "https://example.edu/credentials/3732",
     issuer  |-> iss.id,
     type    |-> "UniversityDegreeCredential",
     subject |-> [id |-> subject.id, name |-> "Alice", GPA |-> "4.0"],
     proof   |-> None]

\* fn render_home()
render_home ==
    [title |-> "Home",
     lines |-> <<Text(""), Text("Welcome"), Text(""), Text("to"), Text(""),
                 Text("SSI @ IOTA"), Text(""), Text("Press q to quit.")>>]

\* fn render_issue(did, credential)
render_issue(d, c) ==
    [title |-> "Issue",
     lines |-> <<Text(""), Text("Issue"), d, c, Text("Press q to quit.")>>]

\* fn render_verify()
render_verify ==
    [title |-> "Verify",
     lines |-> <<Text(""), Text("Verify"), Text(""), Text(""),
                 Text("Press q to quit.")>>]

\* the closure given to terminal.draw: tabs, the active panel, the footer
DrawFrame(item, d, c) ==
    [titles   |-> menu_titles,
     selected |-> MenuIndex(item),
     panel    |-> CASE item = "Home" -> render_home
                    [] item = "Issue" -> render_issue(d, c)
                    [] item = "Verify" -> render_verify,
     footer   |-> "Do what you want."]

\* the dispatch with the 'v' arm selecting the Issue panel
Dispatch_VerifyAsIssue(ev, item) ==
    IF ev[1] = "Input"
    THEN CASE ev[2] = "h" -> "Home"
           [] ev[2] = "i" -> "Issue"
           [] ev[2] = "v" -> "Issue"
           [] OTHER -> item
    ELSE item

\* the dispatch with a Tick arm that returns to the Home panel
Dispatch_TickResetsHome(ev, item) ==
    IF ev[1] = "Input"
    THEN CASE ev[2] = "h" -> "Home"
           [] ev[2] = "i" -> "Issue"
           [] ev[2] = "v" -> "Verify"
           [] OTHER -> item
    ELSE "Home"

\* the match on event.code of the render loop: the new active_menu_item
Dispatch(ev, item) ==
    IF ev[1] = "Input"
    THEN CASE ev[2] = "h" -> "Home"
           [] ev[2] = "i" -> "Issue"
           [] ev[2] = "v" -> "Verify"
           [] OTHER -> item
    ELSE item

\* KeyCode::Char('q') arm: the event that makes the loop break
IsQuit(ev) == ev = Input("q")

\* the poll timeout without the elapsed time subtracted: always a full interval
Timeout_FullInterval(t, last) == tick_rate

\* tick_rate.checked_sub(last_tick.elapsed()).unwrap_or_else(|| 0)
Timeout(t, last) ==
    IF tick_rate >= t - last THEN tick_rate - (t - last) ELSE 0

\* a send that puts the event at the queue's head
Send_Prepend(queue, ev) == <<ev>> \o queue

\* a receive that reports the disconnection before the queued events
RecvOutcome_DropsQueued(queue, sendersAlive) ==
    IF ~sendersAlive THEN "disconnected"
    ELSE IF queue # <<>> THEN "message" ELSE "block"

\* a failure of receipt.message_url() that is swallowed instead of returned
OnFailure_Swallowed(step) ==
    IF step \in {"qr_did", "qr_vc", "enable_raw"} THEN "panic"
    ELSE IF step = "did_message_url" THEN "did_return" ELSE "err"

\* tx.send(ev) on the unbounded channel: the event joins the queue's tail
Send(queue, ev) == Append(queue, ev)

\* rx.recv(): a queued event is returned first, whoever is still alive; an empty
\* queue blocks while a sender lives and is a RecvError once all are dropped
RecvOutcome(queue, sendersAlive) ==
    IF queue # <<>> THEN "message"
    ELSE IF sendersAlive THEN "block" ELSE "disconnected"

\* what a failing step does: `?` returns Err from main, unwrap/expect panics
OnFailure(step) ==
    IF step \in {"qr_did", "qr_vc", "enable_raw"} THEN "panic" ELSE "err"

\* main has returned or panicked: its locals, rx among them, are dropped
MainEnded == mainPc \in {"done", "err", "panic"}

\* the producer thread is running, so its tx is alive
ProducerRunning == prodPc \in {"start", "poll", "read", "tick"}

----------------------------------------------------------------------------
Init ==
    /\ mainPc = "account_build"
    /\ failed = None
    /\ issuer = NoDoc
    /\ did = None
    /\ resolved = NoDoc
    /\ did_id = NoText
    /\ subject_doc = NoSubjectDoc
    /\ didStep = [keypair |-> None, document |-> NoSubjectDoc, receipt |-> <<>>]
    /\ credential = NoCredential
    /\ credCount = 0
    /\ vc = NoText
    /\ stdout = <<>>
    /\ rawMode = FALSE
    /\ rawEver = FALSE
    /\ cursorShown = FALSE
    /\ active_menu_item = None
    /\ frame = NoFrame
    /\ draws = 0
    /\ consumed = <<>>
    /\ trace = <<>>
    /\ prodPc = "notstarted"
    /\ now = 0
    /\ last_tick = 0
    /\ chan = <<>>
    /\ emitted = <<>>

\* a step of main fails
Raise(step) ==
    /\ mainPc' = OnFailure(step)
    /\ failed' = step

\* a step of main succeeds
Goto(next) ==
    /\ mainPc' = next
    /\ failed' = failed

----------------------------------------------------------------------------
(* main: the identity, credential and QR setup *)

\* Account::builder().storage(..).build().await?
AccountBuild ==
    /\ mainPc = "account_build"
    /\ \/ Goto("create_identity")
       \/ Raise("account_build")
    /\ UNCHANGED <<setupVars, termVars, loopVars, prodVars>>

\* account.create_identity(IdentityCreate::default()).await?
CreateIdentity ==
    /\ mainPc = "create_identity"
    /\ \/ /\ \E d \in DIDs : issuer' = [id |-> d]
          /\ Goto("try_did")
       \/ /\ Raise("create_identity")
          /\ UNCHANGED issuer
    /\ UNCHANGED <<did, resolved, did_id, subject_doc, didStep, credential,
                   credCount, vc, stdout, termVars, loopVars, prodVars>>

\* snapshot.identity().try_did()?
TryDid ==
    /\ mainPc = "try_did"
    /\ \/ /\ did' = issuer.id
          /\ Goto("to_document")
       \/ /\ Raise("try_did")
          /\ UNCHANGED did
    /\ UNCHANGED <<issuer, resolved, did_id, subject_doc, didStep, credential,
                   credCount, vc, stdout, termVars, loopVars, prodVars>>

\* println!(.., snapshot.identity().to_document()?)
ToDocument ==
    /\ mainPc = "to_document"
    /\ \/ Goto("resolve_identity")
       \/ Raise("to_document")
    /\ UNCHANGED <<setupVars, termVars, loopVars, prodVars>>

\* account.resolve_identity(did).await?
ResolveIdentity ==
    /\ mainPc = "resolve_identity"
    /\ \/ /\ resolved' = [id |-> did]
          /\ Goto("qr_did")
       \/ /\ Raise("resolve_identity")
          /\ UNCHANGED resolved
    /\ UNCHANGED <<issuer, did, did_id, subject_doc, didStep, credential,
                   credCount, vc, stdout, termVars, loopVars, prodVars>>

\* did_id = resolved.id().as_str(); QrCode::new(did_id).unwrap(); println!
QrDid ==
    /\ mainPc = "qr_did"
    /\ did_id' = Text(resolved.id)
    /\ \/ /\ stdout' = stdout \o <<Line(did_id'), QrImage(did_id')>>
          /\ Goto("did_keypair")
       \/ /\ stdout' = Append(stdout, Line(did_id'))
          /\ Raise("qr_did")
    /\ UNCHANGED <<issuer, did, resolved, subject_doc, didStep, credential,
                   credCount, vc, termVars, loopVars, prodVars>>

----------------------------------------------------------------------------
(* did::create_did, called at main.rs:95 *)

\* KeyPair::new_ed25519()?   (a fresh key pair: its DID is a new one)
DidKeypair ==
    /\ mainPc = "did_keypair"
    /\ \/ /\ \E d \in DIDs \ {issuer.id} :
                didStep' = [didStep EXCEPT !.keypair = d]
          /\ Goto("did_document")
       \/ /\ Raise("did_keypair")
          /\ UNCHANGED didStep
    /\ UNCHANGED <<issuer, did, resolved, did_id, subject_doc, credential,
                   credCount, vc, stdout, termVars, loopVars, prodVars>>

\* IotaDocument::new(&keypair)?
DidDocument ==
    /\ mainPc = "did_document"
    /\ \/ /\ didStep' = [didStep EXCEPT !.document =
                            [id |-> didStep.keypair, signed |-> FALSE,
                             message_id |-> <<>>]]
          /\ Goto("did_sign")
       \/ /\ Raise("did_document")
          /\ UNCHANGED didStep
    /\ UNCHANGED <<issuer, did, resolved, did_id, subject_doc, credential,
                   credCount, vc, stdout, termVars, loopVars, prodVars>>

\* document.sign(keypair.private())?
DidSign ==
    /\ mainPc = "did_sign"
    /\ \/ /\ didStep' = [didStep EXCEPT !.document.signed = TRUE]
          /\ Goto("did_publish")
       \/ /\ Raise("did_sign")
          /\ UNCHANGED didStep
    /\ UNCHANGED <<issuer, did, resolved, did_id, subject_doc, credential,
                   credCount, vc, stdout, termVars, loopVars, prodVars>>

\* client.publish_document(&document).await?; document.set_message_id(..)
DidPublish ==
    /\ mainPc = "did_publish"
    /\ \/ /\ didStep' = [didStep EXCEPT
                            !.receipt = <<"msg", didStep.document.id>>,
                            !.document.message_id = <<"msg", didStep.document.id>>]
          /\ Goto("did_message_url")
       \/ /\ Raise("did_publish")
          /\ UNCHANGED didStep
    /\ UNCHANGED <<issuer, did, resolved, did_id, subject_doc, credential,
                   credCount, vc, stdout, termVars, loopVars, prodVars>>

\* println!(.., receipt.message_url()?)
DidMessageUrl ==
    /\ mainPc = "did_message_url"
    /\ \/ Goto("did_return")
       \/ Raise("did_message_url")
    /\ UNCHANGED <<setupVars, termVars, loopVars, prodVars>>

\* Ok((document, keypair, receipt)), bound to subject_doc by main
DidReturn ==
    /\ mainPc = "did_return"
    /\ subject_doc' = didStep.document
    /\ Goto("issue_subject")
    /\ UNCHANGED <<issuer, did, resolved, did_id, didStep, credential,
                   credCount, vc, stdout, termVars, loopVars, prodVars>>

----------------------------------------------------------------------------
(* issue::issue_degree, called at main.rs:98 *)

\* Subject::from_json_value(json!({"id": subject.id().as_str(), ..}))?
IssueSubject ==
    /\ mainPc = "issue_subject"
    /\ \/ Goto("issue_urls")
       \/ Raise("issue_subject")
    /\ UNCHANGED <<setupVars, termVars, loopVars, prodVars>>

\* Url::parse("https://example.edu/..")?, Url::parse(issuer.id().as_str())?
IssueUrls ==
    /\ mainPc = "issue_urls"
    /\ \/ Goto("issue_build")
       \/ Raise("issue_urls")
    /\ UNCHANGED <<setupVars, termVars, loopVars, prodVars>>

\* CredentialBuilder::default()...build()?; Ok(credential)
IssueBuild ==
    /\ mainPc = "issue_build"
    /\ \/ /\ credential' = issue_degree(resolved, subject_doc)
          /\ credCount' = credCount + 1
          /\ Goto("vc_string")
       \/ /\ Raise("issue_build")
          /\ UNCHANGED <<credential, credCount>>
    /\ UNCHANGED <<issuer, did, resolved, did_id, subject_doc, didStep,
                   vc, stdout, termVars, loopVars, prodVars>>

----------------------------------------------------------------------------
(* main, continued *)

\* credential_str = credential.to_string(); vc = credential_str.as_str()
VcString ==
    /\ mainPc = "vc_string"
    /\ vc' = CredentialToString(credential)
    /\ Goto("qr_vc")
    /\ UNCHANGED <<issuer, did, resolved, did_id, subject_doc, didStep,
                   credential, credCount, stdout, termVars, loopVars, prodVars>>

\* QrCode::new(credential.to_string()).unwrap(); println!("{}", image)
QrVc ==
    /\ mainPc = "qr_vc"
    /\ \/ /\ stdout' = Append(stdout, QrImage(CredentialToString(credential)))
          /\ Goto("enable_raw")
       \/ /\ Raise("qr_vc")
          /\ UNCHANGED stdout
    /\ UNCHANGED <<issuer, did, resolved, did_id, subject_doc, didStep,
                   credential, credCount, vc, termVars, loopVars, prodVars>>

\* enable_raw_mode() with its result ignored: main goes on after a failure
EnableRawMode_ResultIgnored ==
    /\ mainPc = "enable_raw"
    /\ \/ /\ rawMode' = TRUE
          /\ rawEver' = TRUE
       \/ UNCHANGED <<rawMode, rawEver>>
    /\ Goto("spawn")
    /\ UNCHANGED <<setupVars, cursorShown, loopVars, prodVars>>

\* enable_raw_mode().expect("can run in raw mode")
EnableRawMode ==
    /\ mainPc = "enable_raw"
    /\ \/ /\ rawMode' = TRUE
          /\ rawEver' = TRUE
          /\ Goto("spawn")
       \/ /\ Raise("enable_raw")
          /\ UNCHANGED <<rawMode, rawEver>>
    /\ UNCHANGED <<setupVars, cursorShown, loopVars, prodVars>>

\* let (tx, rx) = mpsc::channel(); thread::spawn(move || ..)
Spawn ==
    /\ mainPc = "spawn"
    /\ prodPc' = "start"
    /\ chan' = <<>>
    /\ Goto("term_new")
    /\ UNCHANGED <<setupVars, termVars, loopVars, now, last_tick, emitted>>

\* Terminal::new(CrosstermBackend::new(io::stdout()))?
TerminalNew ==
    /\ mainPc = "term_new"
    /\ \/ Goto("term_clear")
       \/ Raise("term_new")
    /\ UNCHANGED <<setupVars, termVars, loopVars, prodVars>>

\* terminal.clear()?
TerminalClear ==
    /\ mainPc = "term_clear"
    /\ \/ Goto("menu_init")
       \/ Raise("term_clear")
    /\ UNCHANGED <<setupVars, termVars, loopVars, prodVars>>

\* let mut active_menu_item = MenuItem::Home;
MenuInit ==
    /\ mainPc = "menu_init"
    /\ active_menu_item' = "Home"
    /\ Goto("draw")
    /\ UNCHANGED <<setupVars, termVars, frame, draws, consumed, trace, prodVars>>

----------------------------------------------------------------------------
(* main: the render loop *)

\* a draw that encodes and prints the credential's QR image again
Draw_ReencodesQr ==
    /\ mainPc = "draw"
    /\ \/ /\ frame' = DrawFrame(active_menu_item, did_id, vc)
          /\ draws' = draws + 1
          /\ stdout' = Append(stdout, QrImage(vc))
          /\ Goto("recv")
       \/ /\ Raise("draw")
          /\ UNCHANGED <<frame, draws, stdout>>
    /\ UNCHANGED <<issuer, did, resolved, did_id, subject_doc, didStep,
                   credential, credCount, vc, termVars, active_menu_item,
                   consumed, trace, prodVars>>

\* terminal.draw(|rect| { .. })?
Draw ==
    /\ mainPc = "draw"
    /\ \/ /\ frame' = DrawFrame(active_menu_item, did_id, vc)
          /\ draws' = draws + 1
          /\ Goto("recv")
       \/ /\ Raise("draw")
          /\ UNCHANGED <<frame, draws>>
    /\ UNCHANGED <<setupVars, termVars, active_menu_item, consumed, trace,
                   prodVars>>

\* a receive whose Tick arm waits for the next event without a redraw
Recv_TickSkipsRedraw ==
    /\ mainPc = "recv"
    /\ LET outcome == RecvOutcome(chan, ProducerRunning) IN
       \/ /\ outcome = "message"
          /\ LET ev == Head(chan) IN
             /\ chan' = Tail(chan)
             /\ consumed' = Append(consumed, ev)
             /\ IF IsQuit(ev)
                THEN /\ active_menu_item' = active_menu_item
                     /\ trace' = Append(trace, "exit")
                     /\ Goto("quit_disable")
                ELSE /\ active_menu_item' = Dispatch(ev, active_menu_item)
                     /\ trace' = Append(trace, active_menu_item')
                     /\ Goto(IF ev = Tick THEN "recv" ELSE "draw")
       \/ /\ outcome = "disconnected"
          /\ Raise("recv")
          /\ UNCHANGED <<chan, consumed, active_menu_item, trace>>
    /\ UNCHANGED <<setupVars, termVars, frame, draws,
                   prodPc, now, last_tick, emitted>>

\* match rx.recv()? { Event::Input(event) => match event.code {..}, Event::Tick => {} }
Recv ==
    /\ mainPc = "recv"
    /\ LET outcome == RecvOutcome(chan, ProducerRunning) IN
       \/ /\ outcome = "message"
          /\ LET ev == Head(chan) IN
             /\ chan' = Tail(chan)
             /\ consumed' = Append(consumed, ev)
             /\ IF IsQuit(ev)
                THEN /\ active_menu_item' = active_menu_item
                     /\ trace' = Append(trace, "exit")
                     /\ Goto("quit_disable")
                ELSE /\ active_menu_item' = Dispatch(ev, active_menu_item)
                     /\ trace' = Append(trace, active_menu_item')
                     /\ Goto("draw")
       \/ /\ outcome = "disconnected"
          /\ Raise("recv")
          /\ UNCHANGED <<chan, consumed, active_menu_item, trace>>
    /\ UNCHANGED <<setupVars, termVars, frame, draws,
                   prodPc, now, last_tick, emitted>>

\* the quit arm without the call of disable_raw_mode
QuitDisableRawMode_Skipped ==
    /\ mainPc = "quit_disable"
    /\ Goto("quit_show_cursor")
    /\ UNCHANGED <<setupVars, termVars, loopVars, prodVars>>

\* KeyCode::Char('q') => { disable_raw_mode()?; ..
QuitDisableRawMode ==
    /\ mainPc = "quit_disable"
    /\ \/ /\ rawMode' = FALSE
          /\ Goto("quit_show_cursor")
       \/ /\ Raise("quit_disable")
          /\ UNCHANGED rawMode
    /\ UNCHANGED <<setupVars, rawEver, cursorShown, loopVars, prodVars>>

\* the quit arm waiting for the producer thread to end before it returns
QuitShowCursor_JoinsProducer ==
    /\ mainPc = "quit_show_cursor"
    /\ ~ProducerRunning
    /\ \/ /\ cursorShown' = TRUE
          /\ Goto("done")
       \/ /\ Raise("quit_show_cursor")
          /\ UNCHANGED cursorShown
    /\ UNCHANGED <<setupVars, rawMode, rawEver, loopVars, prodVars>>

\* .. terminal.show_cursor()?; break; }  then Ok(())
QuitShowCursor ==
    /\ mainPc = "quit_show_cursor"
    /\ \/ /\ cursorShown' = TRUE
          /\ Goto("done")
       \/ /\ Raise("quit_show_cursor")
          /\ UNCHANGED cursorShown
    /\ UNCHANGED <<setupVars, rawMode, rawEver, loopVars, prodVars>>

----------------------------------------------------------------------------
(* the producer thread: the closure given to thread::spawn *)

\* let mut last_tick = Instant::now();
ProducerStart ==
    /\ prodPc = "start"
    /\ last_tick' = now
    /\ prodPc' = "poll"
    /\ UNCHANGED <<mainPc, failed, setupVars, termVars, loopVars, now, chan,
                   emitted>>

\* event::poll(timeout).expect("poll works"): true as soon as an event is
\* available, false once the timeout has passed
ProducerPoll ==
    /\ prodPc = "poll"
    /\ LET timeout == Timeout(now, last_tick) IN
       \/ \E k \in 0..(timeout \div Quantum) :
             /\ now + k * Quantum <= MaxTime
             /\ now' = now + k * Quantum
             /\ prodPc' = "read"
       \/ /\ now + timeout <= MaxTime
          /\ now' = now + timeout
          /\ prodPc' = "tick"
       \/ /\ now' = now
          /\ prodPc' = "dead"
    /\ UNCHANGED <<mainPc, failed, setupVars, termVars, loopVars, last_tick,
                   chan, emitted>>

\* a read that forwards whatever event it got as an Input
ProducerRead_ForwardsEveryEvent ==
    /\ prodPc = "read"
    /\ \/ \E ev \in TermEvents, d \in {0, Quantum} :
             /\ now + d <= MaxTime
             /\ now' = now + d
             /\ IF MainEnded
                THEN /\ prodPc' = "dead"
                     /\ UNCHANGED <<chan, emitted>>
                ELSE /\ Len(emitted) < MaxEvents
                     /\ chan' = Send(chan, Input(ev[Len(ev)]))
                     /\ emitted' = Append(emitted, Input(ev[Len(ev)]))
                     /\ prodPc' = "tick"
       \/ /\ prodPc' = "dead"
          /\ UNCHANGED <<now, chan, emitted>>
    /\ UNCHANGED <<mainPc, failed, setupVars, termVars, loopVars, last_tick>>

\* if let CEvent::Key(key) = event::read().expect("can read events")
\*     { tx.send(Event::Input(key)).expect("can send events"); }
ProducerRead ==
    /\ prodPc = "read"
    /\ \/ \E ev \in TermEvents, d \in {0, Quantum} :
             /\ now + d <= MaxTime
             /\ now' = now + d
             /\ IF ev[1] = "Key"
                THEN IF MainEnded
                     THEN /\ prodPc' = "dead"
                          /\ UNCHANGED <<chan, emitted>>
                     ELSE /\ Len(emitted) < MaxEvents
                          /\ chan' = Send(chan, Input(ev[2]))
                          /\ emitted' = Append(emitted, Input(ev[2]))
                          /\ prodPc' = "tick"
                ELSE /\ prodPc' = "tick"
                     /\ UNCHANGED <<chan, emitted>>
       \/ /\ prodPc' = "dead"
          /\ UNCHANGED <<now, chan, emitted>>
    /\ UNCHANGED <<mainPc, failed, setupVars, termVars, loopVars, last_tick>>

\* the tick check resetting last_tick whether or not the send succeeded
ProducerTick_ResetsOnFailedSend ==
    /\ prodPc = "tick"
    /\ IF now - last_tick >= tick_rate
       THEN IF MainEnded
            THEN /\ last_tick' = now
                 /\ UNCHANGED <<chan, emitted>>
            ELSE /\ Len(emitted) < MaxEvents
                 /\ chan' = Send(chan, Tick)
                 /\ emitted' = Append(emitted, Tick)
                 /\ last_tick' = now
       ELSE UNCHANGED <<chan, emitted, last_tick>>
    /\ prodPc' = "poll"
    /\ UNCHANGED <<mainPc, failed, setupVars, termVars, loopVars, now>>

\* if last_tick.elapsed() >= tick_rate
\*     { if let Ok(_) = tx.send(Event::Tick) { last_tick = Instant::now(); } }
ProducerTick ==
    /\ prodPc = "tick"
    /\ IF now - last_tick >= tick_rate
       THEN IF MainEnded
            THEN UNCHANGED <<chan, emitted, last_tick>>
            ELSE /\ Len(emitted) < MaxEvents
                 /\ chan' = Send(chan, Tick)
                 /\ emitted' = Append(emitted, Tick)
                 /\ last_tick' = now
       ELSE UNCHANGED <<chan, emitted, last_tick>>
    /\ prodPc' = "poll"
    /\ UNCHANGED <<mainPc, failed, setupVars, termVars, loopVars, now>>

----------------------------------------------------------------------------
Next ==
    \/ AccountBuild
    \/ CreateIdentity
    \/ TryDid
    \/ ToDocument
    \/ ResolveIdentity
    \/ QrDid
    \/ DidKeypair
    \/ DidDocument
    \/ DidSign
    \/ DidPublish
    \/ DidMessageUrl
    \/ DidReturn
    \/ IssueSubject
    \/ IssueUrls
    \/ IssueBuild
    \/ VcString
    \/ QrVc
    \/ EnableRawMode
    \/ Spawn
    \/ TerminalNew
    \/ TerminalClear
    \/ MenuInit
    \/ Draw
    \/ Recv
    \/ QuitDisableRawMode
    \/ QuitShowCursor
    \/ ProducerStart
    \/ ProducerPoll
    \/ ProducerRead
    \/ ProducerTick

Spec == Init /\ [][Next]_vars

\* the steps of the main thread from the spawn of the producer on
MainStep ==
    \/ TerminalNew
    \/ TerminalClear
    \/ MenuInit
    \/ Draw
    \/ Recv
    \/ QuitDisableRawMode
    \/ QuitShowCursor

\* the main thread keeps running whenever it can take a step (its calls do
\* not block, except rx.recv() on an empty queue); nothing is assumed of the
\* producer thread, which main never joins
\* for the liveness check the keys pressed are drawn from a smaller set: the
\* quit key and one navigation key
ProducerReadFewKeys ==
    /\ ProducerRead
    /\ emitted' # emitted =>
          emitted'[Len(emitted')] \in {Input("q"), Input("i")}

FewKeysNext ==
    \/ AccountBuild
    \/ CreateIdentity
    \/ TryDid
    \/ ToDocument
    \/ ResolveIdentity
    \/ QrDid
    \/ DidKeypair
    \/ DidDocument
    \/ DidSign
    \/ DidPublish
    \/ DidMessageUrl
    \/ DidReturn
    \/ IssueSubject
    \/ IssueUrls
    \/ IssueBuild
    \/ VcString
    \/ QrVc
    \/ EnableRawMode
    \/ Spawn
    \/ TerminalNew
    \/ TerminalClear
    \/ MenuInit
    \/ Draw
    \/ Recv
    \/ QuitDisableRawMode
    \/ QuitShowCursor
    \/ ProducerStart
    \/ ProducerPoll
    \/ ProducerReadFewKeys
    \/ ProducerTick

SpecMainRuns == Init /\ [][FewKeysNext]_vars /\ WF_vars(MainStep)

----------------------------------------------------------------------------
(* Properties *)

Last(s) == s[Len(s)]
Front(s) == SubSeq(s, 1, Len(s) - 1)

\* main is in the render loop, the quit arm included
InLoop == mainPc \in {"draw", "recv", "quit_disable", "quit_show_cursor"}

\* the item of the last navigation key of a sequence of events, Home if none
RECURSIVE LastNav(_)
LastNav(s) ==
    IF s = <<>> THEN "Home"
    ELSE IF Last(s) = Input("h") THEN "Home"
    ELSE IF Last(s) = Input("i") THEN "Issue"
    ELSE IF Last(s) = Input("v") THEN "Verify"
    ELSE LastNav(Front(s))

Scenario == <<Input("i"), Tick, Input("v"), Input("q")>>

\* C1: after each consumed event the active MenuItem is the item of the last
\* navigation key consumed so far (h, i, v), Home if there was none; any other
\* event leaves it unchanged; a consumed 'q' is the last event consumed and
\* takes main out of the draw/receive cycle; the events
\* [Input('i'), Tick, Input('v'), Input('q')] give [Issue, Issue, Verify, exit].
C1_MenuFollowsLastNavKey ==
    /\ active_menu_item # None => active_menu_item = LastNav(consumed)
    /\ Len(trace) = Len(consumed)
    /\ \A n \in 1..Len(consumed) :
          /\ trace[n] = IF consumed[n] = Input("q") THEN "exit"
                        ELSE LastNav(SubSeq(consumed, 1, n))
          /\ consumed[n] = Input("q") =>
                /\ n = Len(consumed)
                /\ mainPc \notin {"draw", "recv"}
    /\ consumed = Scenario => trace = <<"Issue", "Issue", "Verify", "exit">>

C1_Witness ==
    /\ consumed = Scenario
    /\ mainPc = "done"
    /\ active_menu_item = "Verify"

\* C2: whenever main has ended after raw mode was enabled, raw mode has been
\* disabled again.
C2_RawModeRestoredOnEveryExit ==
    (MainEnded /\ rawEver) => ~rawMode

\* C3: on a consumed Input('q') the loop disables raw mode, then shows the
\* cursor, then breaks: the cursor is shown only with raw mode off, the loop is
\* left through the break only with both done; the quit key does not change
\* the active MenuItem, and after it nothing is drawn and nothing is received.
C3_QuitReleasesTerminalThenExits ==
    /\ [](/\ cursorShown => ~rawMode
          /\ mainPc = "quit_show_cursor" => ~rawMode
          /\ mainPc = "done" => (~rawMode /\ cursorShown)
          /\ mainPc \in {"quit_disable", "quit_show_cursor", "done"} =>
                (consumed # <<>> /\ Last(consumed) = Input("q"))
          /\ failed = "quit_show_cursor" => ~rawMode)
    /\ [][/\ consumed' = Append(consumed, Input("q")) =>
                (active_menu_item' = active_menu_item /\ mainPc' = "quit_disable")
          /\ (consumed # <<>> /\ Last(consumed) = Input("q")) =>
                /\ active_menu_item' = active_menu_item
                /\ draws' = draws
                /\ frame' = frame
                /\ consumed' = consumed
                /\ mainPc' \in {mainPc, "quit_show_cursor", "done", "err"}
          /\ (mainPc' = "done" /\ mainPc # "done") =>
                (mainPc = "quit_show_cursor" /\ ~rawMode /\ cursorShown')]_vars

C3_Witness ==
    /\ mainPc = "done"
    /\ Last(consumed) = Input("q")
    /\ active_menu_item = "Issue"
    /\ chan # <<>>

\* C4: the step that consumes a Tick changes neither the active MenuItem nor
\* the cached DID and credential strings; it only sends the loop back to draw,
\* and what is drawn next is the panel of the unchanged item.
C4_TickChangesNoState ==
    /\ [][consumed' = Append(consumed, Tick) =>
             /\ active_menu_item' = active_menu_item
             /\ did_id' = did_id
             /\ vc' = vc
             /\ frame' = frame
             /\ mainPc' = "draw"]_vars
    /\ []((mainPc = "recv" /\ consumed # <<>> /\ Last(consumed) = Tick) =>
             frame = DrawFrame(LastNav(Front(consumed)), did_id, vc))

C4_Witness ==
    /\ mainPc = "recv"
    /\ Len(consumed) >= 2
    /\ Last(consumed) = Tick
    /\ active_menu_item = "Issue"
    /\ draws = Len(consumed) + 1

\* C5: while the producer runs and the channel is open, the poll returns no
\* later than the tick deadline, the Tick check that follows is reached within
\* the tick interval plus the work of one iteration, and the loop head is never
\* reached with an expired deadline, whatever keys arrive.
C5_TickNotStarved ==
    ~MainEnded =>
        /\ prodPc = "poll" => now - last_tick < tick_rate
        /\ prodPc = "read" => now - last_tick <= tick_rate
        /\ prodPc = "tick" => now - last_tick <= tick_rate + Quantum

\* a key was available on the first two polls, and the Tick came all the same
C5_Witness ==
    /\ ~MainEnded
    /\ Len(emitted) >= 3
    /\ emitted[1][1] = "Input"
    /\ emitted[2][1] = "Input"
    /\ emitted[3] = Tick
    /\ last_tick = tick_rate

\* C6: the channel is one FIFO queue: what the render loop has consumed,
\* followed by what is still queued, is exactly what the producer sent, in the
\* order it was sent (nothing lost, duplicated or reordered); and a due Tick
\* can be sent whatever the length of the queue.
C6_ChannelIsFifo ==
    /\ emitted = consumed \o chan
    /\ (prodPc = "tick" /\ ~MainEnded /\ Len(emitted) < MaxEvents) =>
          ENABLED ProducerTick

\* the consumer has taken one event and lags three events behind
C6_Witness ==
    /\ Len(consumed) = 1
    /\ Len(chan) = 3
    /\ consumed[1] # chan[1]
    /\ chan[1] # chan[2]
    /\ chan[2] # chan[3]

\* the setup steps of main, did::create_did and issue::issue_degree
SetupSteps ==
    {"account_build", "create_identity", "try_did", "to_document",
     "resolve_identity", "qr_did", "did_keypair", "did_document", "did_sign",
     "did_publish", "did_message_url", "issue_subject", "issue_urls",
     "issue_build", "qr_vc"}

\* C7: once the producer has died (a failed poll or read among the causes) it
\* stays dead and sends nothing more; the render loop's receive then still
\* returns each queued event in order, and with the queue empty it returns the
\* error that ends main, so that the receive is never blocked.
C7_ProducerFailureIsFatal ==
    /\ [][prodPc = "dead" => (prodPc' = "dead" /\ emitted' = emitted)]_vars
    /\ [][(prodPc = "dead" /\ mainPc = "recv" /\ mainPc' # mainPc) =>
             IF chan # <<>>
             THEN /\ consumed' = Append(consumed, Head(chan))
                  /\ chan' = Tail(chan)
                  /\ mainPc' \in {"draw", "quit_disable"}
             ELSE /\ mainPc' = "err"
                  /\ failed' = "recv"
                  /\ consumed' = consumed]_vars
    /\ []((prodPc = "dead" /\ mainPc = "recv") => ENABLED Recv)
    /\ [](failed = "recv" => (prodPc = "dead" /\ chan = <<>> /\ mainPc = "err"))

\* the producer died with events queued; the loop consumed them, then failed
C7_Witness ==
    /\ prodPc = "dead"
    /\ failed = "recv"
    /\ mainPc = "err"
    /\ Len(consumed) >= 2
    /\ consumed = emitted

\* C8: when a setup step has failed, main has ended and the Dashboard was
\* never entered: raw mode was never enabled, the producer thread was never
\* spawned, and nothing was drawn or received.
C8_SetupFailureAbortsStartup ==
    failed \in SetupSteps =>
        /\ MainEnded
        /\ ~rawEver
        /\ ~rawMode
        /\ prodPc = "notstarted"
        /\ draws = 0
        /\ frame = NoFrame
        /\ consumed = <<>>
        /\ active_menu_item = None

C8_Witness ==
    /\ failed = "did_message_url"
    /\ mainPc = "err"
    /\ didStep.document.message_id # <<>>

\* C9: whenever the render loop is running, the credential it displays exists
\* and carries the issuer's signature.
C9_LoopShowsSignedCredential ==
    InLoop => (credCount = 1 /\ credential.proof # None)

\* the positions of main after issue::issue_degree has returned Ok
PostBuildSteps ==
    {"vc_string", "qr_vc", "enable_raw", "spawn", "term_new", "term_clear",
     "menu_init", "done"}

\* C10: at most one credential is ever built, and exactly one once the build
\* has succeeded; it is built after both identities exist, its issuer id is
\* the issuer identity's id and its subject id the subject identity's id; once
\* created, neither identity record nor the credential is modified.
C10_OneCredentialOfTheTwoIdentities ==
    /\ [](/\ credCount \in {0, 1}
          /\ credCount = 0 <=> credential = NoCredential
          /\ mainPc \in (SetupSteps \ {"qr_vc"}) \cup {"did_return"} =>
                credCount = 0
          /\ (InLoop \/ mainPc \in PostBuildSteps) => credCount = 1
          /\ credCount = 1 =>
                /\ issuer.id \in DIDs
                /\ subject_doc.id \in DIDs
                /\ credential.issuer = issuer.id
                /\ credential.subject.id = subject_doc.id
                /\ credential.issuer # credential.subject.id)
    /\ [][/\ issuer # NoDoc => issuer' = issuer
          /\ subject_doc # NoSubjectDoc => subject_doc' = subject_doc
          /\ credCount = 1 => (credential' = credential /\ credCount' = 1)
          /\ credCount' # credCount =>
                (issuer' = issuer /\ subject_doc' = subject_doc
                 /\ resolved' = resolved)]_vars

C10_Witness ==
    /\ mainPc = "done"
    /\ credCount = 1
    /\ credential.issuer = "did:iota:B"
    /\ credential.subject.id = "did:iota:A"

\* the terminal operations of main that can fail once the producer is spawned
TerminalFailures ==
    {"term_new", "term_clear", "draw", "quit_disable", "quit_show_cursor"}

QuitQueued == \E n \in 1..Len(chan) : chan[n] = Input("q")

\* C11: once Input('q') is in the channel and the main thread keeps taking
\* steps, main consumes a quit, releases the terminal and returns, unless a
\* terminal operation fails first; no step of the producer is needed for it.
C11_QuitIsEffective ==
    QuitQueued ~>
        \/ mainPc = "done" /\ ~rawMode /\ cursorShown
        \/ failed \in TerminalFailures

\* main has returned after a quit while the producer thread is still running
C11_Witness ==
    /\ mainPc = "done"
    /\ Last(consumed) = Input("q")
    /\ ProducerRunning
    /\ ~rawMode

\* a panel line holding the light/dark glyph grid that encodes a text
QrGlyphGrid(text) == <<"qr glyph grid of">> \o text

\* the attribution line "issued by {did}"
IssuedBy(d) == <<"issued by ">> \o d

\* C12: a drawn Issue panel contains the glyph grid of the issuer DID, then
\* the glyph grid of the credential text, then the line "issued by {did}".
C12_IssuePanelShowsQrAndAttribution ==
    frame.panel.title = "Issue" =>
        \E i, j, k \in 1..Len(frame.panel.lines) :
            /\ i < j
            /\ j < k
            /\ frame.panel.lines[i] = QrGlyphGrid(did_id)
            /\ frame.panel.lines[j] = QrGlyphGrid(vc)
            /\ frame.panel.lines[k] = IssuedBy(did_id)

\* C13: while main is in the render loop nothing of the identity, credential
\* and QR setup changes or is printed again; the DID string and the credential
\* text were computed before the loop, and every Issue frame drawn shows
\* exactly these two values.
C13_LoopUsesCachedSetupResults ==
    /\ [][InLoop => setupVars' = setupVars]_vars
    /\ [](InLoop =>
            /\ did_id = Text(issuer.id)
            /\ issuer.id \in DIDs
            /\ vc = CredentialToString(credential)
            /\ credCount = 1
            /\ Len(stdout) = 3)
    /\ [](frame.panel.title = "Issue" =>
            /\ frame.panel.lines[3] = did_id
            /\ frame.panel.lines[4] = vc)

\* the Issue panel has been drawn at least twice
C13_Witness ==
    /\ mainPc = "recv"
    /\ frame.panel.title = "Issue"
    /\ consumed = <<Input("i"), Tick, Input("x")>>
    /\ draws = 4

\* C14: the loop alternates draw and receive, starting with a draw: when it
\* is about to draw, as many draws as events have happened; when it waits in
\* the receive, one more draw than events, and the frame on screen is that of
\* the state the last event produced; once the quit event is consumed the
\* draws number the events consumed, the quit event included.
C14_DrawAndReceiveAlternate ==
    /\ mainPc \in {"term_new", "term_clear", "menu_init"} =>
          (draws = 0 /\ consumed = <<>>)
    /\ (mainPc = "draw" \/ failed = "draw") => draws = Len(consumed)
    /\ (mainPc = "recv" \/ failed = "recv") =>
          /\ draws = Len(consumed) + 1
          /\ frame = DrawFrame(active_menu_item, did_id, vc)
    /\ (mainPc \in {"quit_disable", "quit_show_cursor", "done"}
          \/ failed \in {"quit_disable", "quit_show_cursor"}) =>
          /\ draws = Len(consumed)
          /\ Last(consumed) = Input("q")

C14_Witness ==
    /\ mainPc = "done"
    /\ draws = 4
    /\ consumed = <<Input("x"), Tick, Input("h"), Input("q")>>

\* C15: every frame drawn highlights the tab whose label is the title of the
\* panel it shows; while the loop waits in the receive, the frame on screen
\* has the tab index of the active MenuItem (0 Home, 1 Issue, 2 Verify), the
\* label at that index is the item's name, and the panel is the item's panel.
C15_TabAndPanelFollowActiveItem ==
    /\ draws > 0 =>
          /\ frame.selected \in 0..2
          /\ frame.titles = <<"Home", "Issue", "Verify">>
          /\ frame.titles[frame.selected + 1] = frame.panel.title
          /\ frame.panel.lines[2] =
                (IF frame.panel.title = "Home" THEN <<"Welcome">>
                 ELSE <<frame.panel.title>>)
    /\ mainPc = "recv" =>
          /\ active_menu_item \in MenuItem
          /\ frame.selected = (IF active_menu_item = "Home" THEN 0
                               ELSE IF active_menu_item = "Issue" THEN 1 ELSE 2)
          /\ frame.titles[frame.selected + 1] = active_menu_item
          /\ frame.panel.title = active_menu_item

C15_Witness ==
    /\ mainPc = "recv"
    /\ active_menu_item = "Verify"
    /\ frame.selected = 2
    /\ frame.panel.title = "Verify"
    /\ Len(consumed) = 2

\* C16: raw mode is switched on only by main's enable_raw_mode, before the
\* producer is spawned and before anything is drawn; it is on whenever the
\* producer exists or a frame has been drawn, unless the quit arm has switched
\* it off; it is on in every state in which main creates or clears the
\* terminal, draws or waits in the receive; and only the quit arm switches it off.
C16_RawModeHeldForTheLoop ==
    /\ [](/\ prodPc # "notstarted" => rawEver
          /\ draws > 0 => rawEver
          /\ rawMode => rawEver
          /\ mainPc \in {"spawn", "term_new", "term_clear", "menu_init",
                         "draw", "recv", "quit_disable"} => rawMode)
    /\ [][/\ (~rawMode /\ rawMode') =>
                (mainPc = "enable_raw" /\ prodPc = "notstarted" /\ draws = 0)
          /\ (rawMode /\ ~rawMode') =>
                (mainPc = "quit_disable" /\ mainPc' = "quit_show_cursor")]_vars

C16_Witness ==
    /\ mainPc = "quit_show_cursor"
    /\ ~rawMode
    /\ rawEver
    /\ draws = 3
    /\ prodPc = "poll"

\* the order of the producer's positions: start, then poll, read, tick in turn
ProducerOrder ==
    {<<"notstarted", "start">>, <<"start", "poll">>, <<"poll", "read">>,
     <<"poll", "tick">>, <<"poll", "dead">>, <<"read", "tick">>,
     <<"read", "dead">>, <<"tick", "poll">>}

\* C17: a step sends at most one event; an Input is sent only by the read of
\* an iteration, before that iteration's tick check, and leaves last_tick
\* alone; a Tick is sent only by the tick check, when the deadline is reached,
\* and then last_tick is reset; last_tick is reset by nothing else; a due Tick
\* whose send fails leaves last_tick as it was, so the deadline stays expired.
C17_OneInputThenOneTickPerIteration ==
    [][/\ prodPc' # prodPc => <<prodPc, prodPc'>> \in ProducerOrder
       /\ emitted' # emitted =>
             /\ Front(emitted') = emitted
             /\ IF Last(emitted') = Tick
                THEN /\ prodPc = "tick"
                     /\ prodPc' = "poll"
                     /\ now - last_tick >= tick_rate
                     /\ last_tick' = now
                ELSE /\ Last(emitted')[1] = "Input"
                     /\ prodPc = "read"
                     /\ prodPc' = "tick"
                     /\ last_tick' = last_tick
       /\ last_tick' # last_tick =>
             /\ prodPc = "tick"
             /\ now - last_tick >= tick_rate
             /\ emitted' = Append(emitted, Tick)
       /\ (prodPc = "tick" /\ prodPc' = "poll" /\ now - last_tick >= tick_rate
             /\ emitted' = emitted) =>
             /\ MainEnded
             /\ last_tick' = last_tick
             /\ now' - last_tick' >= tick_rate]_vars

\* an Input was sent, then a due Tick could not be sent: the deadline is
\* still expired at the head of the next iteration
C17_Witness ==
    /\ prodPc = "poll"
    /\ MainEnded
    /\ now - last_tick >= tick_rate
    /\ last_tick = 0
    /\ Len(emitted) = 1

\* the read of the producer returns an event that it discards: it goes on to
\* its tick check, and nothing is sent
ReadDiscards ==
    /\ ProducerRead
    /\ prodPc' = "tick"
    /\ UNCHANGED <<chan, emitted>>

\* C18: whenever the producer is about to read, reading a terminal event that
\* is not a key event is possible and takes it to the tick check with nothing
\* sent, also when a key event would end it (receiver dropped) or could not be
\* sent; and every event in the channel or consumed by the render loop is a
\* Tick or the Input of a key, so that no other terminal event reaches the menu.
C18_NonKeyEventsAreDiscarded ==
    /\ prodPc = "read" => ENABLED ReadDiscards
    /\ \A n \in 1..Len(emitted) :
          \/ emitted[n] = Tick
          \/ emitted[n][1] = "Input" /\ emitted[n][2] \in Keys
    /\ \A n \in 1..Len(consumed) : consumed[n] = emitted[n]
    /\ (active_menu_item # None /\ consumed = <<>>) => active_menu_item = "Home"

\* the producer has read an event at time 0 and sent nothing: it was not a key
C18_Witness ==
    /\ prodPc = "tick"
    /\ now = 0
    /\ emitted = <<>>
    /\ mainPc = "recv"
    /\ active_menu_item = "Home"

====
